---- MODULE Spec2Model ----
(***************************************************************************)
(* Model of the MongoDB bulk exporter (main.go): the coordinator main,     *)
(* the exportWorker fetch/write/checkpoint loop, and the checkpoint file   *)
(* read and written by loadLastID / saveLastID.                            *)
(*                                                                         *)
(* An ObjectID is a natural number below 16^HexLen; NilObjectID is 0.      *)
(* A text file is a sequence of characters; characters 0..15 are the hex   *)
(* digits, NonHexChar is a character that is no hex digit and Space is a   *)
(* white-space character.  A record of the collection is identified by     *)
(* its _id.                                                                *)
(***************************************************************************)
EXTENDS Integers, Sequences, FiniteSets, TLC

\* ---- bounds of the model ------------------------------------------------
MaxKey == 2
KeyStride == 11
MaxBatchSize == 2
MaxWorkers == 2
MaxRuns == 2
HexLen == 2

\* ---- characters and ObjectIDs -------------------------------------------
NilObjectID == 0
NonHexChar == 16
Space == 17
HexDigits == 0..15

RECURSIVE Pow16(_)
Pow16(n) == IF n = 0 THEN 1 ELSE 16 * Pow16(n - 1)

\* the _id values a collection may hold (never the nil ObjectID)
Keys == {KeyStride * n : n \in 1..MaxKey}
WorkerIDs == 0..(MaxWorkers - 1)

\* ObjectID.Hex(): fixed-width big-endian hex digits
HexBug(id) == [p \in 1..HexLen |-> (id \div Pow16(p - 1)) % 16]
Hex(id) == [p \in 1..HexLen |-> (id \div Pow16(HexLen - p)) % 16]

RECURSIVE DecodeHex(_)
DecodeHex(s) ==
    IF s = <<>> THEN 0
    ELSE 16 * DecodeHex(SubSeq(s, 1, Len(s) - 1)) + s[Len(s)]

\* strings.TrimSpace
RECURSIVE TrimLeft(_)
TrimLeft(s) ==
    IF s # <<>> /\ Head(s) = Space THEN TrimLeft(Tail(s)) ELSE s
RECURSIVE TrimRight(_)
TrimRight(s) ==
    IF s # <<>> /\ s[Len(s)] = Space
    THEN TrimRight(SubSeq(s, 1, Len(s) - 1)) ELSE s
TrimSpace(s) == TrimRight(TrimLeft(s))

\* primitive.ObjectIDFromHex: [err, id]
ObjectIDFromHex(s) ==
    IF Len(s) = HexLen /\ \A p \in 1..Len(s) : s[p] \in HexDigits
    THEN [err |-> FALSE, id |-> DecodeHex(s)]
    ELSE [err |-> TRUE, id |-> NilObjectID]

\* os.ReadFile(lastIDFile): [err, data]
ReadFile(f) ==
    IF f.state = "ok" THEN [err |-> FALSE, data |-> f.data]
    ELSE [err |-> TRUE, data |-> <<>>]

\* loadLastID
loadLastIDBug(f) ==
    IF ReadFile(f).err THEN NilObjectID
    ELSE DecodeHex(TrimSpace(ReadFile(f).data))
loadLastID(f) ==
    IF ReadFile(f).err THEN NilObjectID
    ELSE IF ObjectIDFromHex(TrimSpace(ReadFile(f).data)).err THEN NilObjectID
    ELSE ObjectIDFromHex(TrimSpace(ReadFile(f).data)).id

\* ---- the page query ------------------------------------------------------
\* filter built at the head of the loop: {} or {_id: {$gt: lastID}}
FilterAlways(id) == [all |-> TRUE, gt |-> NilObjectID]
Filter(id) ==
    IF id # NilObjectID THEN [all |-> FALSE, gt |-> id]
    ELSE [all |-> TRUE, gt |-> NilObjectID]

MatchesGte(flt, k) == flt.all \/ k >= flt.gt
Matches(flt, k) == flt.all \/ k > flt.gt

Min(S) == CHOOSE x \in S : \A y \in S : x <= y

\* the first `limit` elements of S in ascending order (sort {_id: 1}, limit)
RECURSIVE SortLimit(_, _)
SortLimit(S, limit) ==
    IF S = {} \/ limit = 0 THEN <<>>
    ELSE <<Min(S)>> \o SortLimit(S \ {Min(S)}, limit - 1)

\* collection.Find(filter, limit batchSize, sort _id ascending) + cursor.All
Find(coll, flt, limit) ==
    SortLimit({k \in coll : Matches(flt, k)}, limit)

Range(s) == {s[p] : p \in 1..Len(s)}

\* ---- state ---------------------------------------------------------------
VARIABLES
    store,       \* the collection: the set of _id values it holds
    batchSize,   \* const batchSize (scaled down)
    workers,     \* const workers
    lastIDFile,  \* last_id.txt: [state, data]
    exportDir,   \* exports/: file name <<batchNum, workerID>> -> [data, complete]
    pcMain,      \* position of main
    mainLastID,  \* main's lastID
    i,           \* main's loop counter of the start-workers loop
    wg,          \* the WaitGroup counter
    workChan,    \* buffered channel contents
    chanClosed,  \* workChan closed
    pcCloser,    \* position of the anonymous goroutine of main
    outcome,     \* what main logged at the end
    pc,          \* position of each exportWorker
    lastID,      \* exportWorker's lastID
    batchNum,    \* exportWorker's batchNum
    results,     \* exportWorker's results
    lane,        \* what each exportWorker logged last: IDLE, ACTIVE, DONE, FAILED
    run,         \* number of the process invocation
    \* history variables, read by the properties only
    prevID,      \* cursor of the worker's latest fetch
    encoded,     \* the worker's current iteration wrote its batch file
    fetched,     \* keys returned by fetches of this invocation
    written,     \* keys written to batch files by this invocation
    prevWritten, \* keys written to batch files by earlier invocations
    saved,       \* cursor of the latest complete save still in the file, or NoSave
    saveFailed,  \* a saveLastID of this invocation failed
    freshStart,  \* the first invocation loaded the nil cursor
    crash,       \* set when a fresh first invocation with no failed save was
                 \* killed between a batch file's write and the end of its save
    ckptHigh,    \* the highest cursor last_id.txt has stood for so far
    wroteNames   \* names of the batch files this invocation wrote completely

disk == <<store, batchSize, workers, lastIDFile, exportDir>>
coord == <<pcMain, mainLastID, i, wg, workChan, chanClosed, pcCloser, outcome>>
work == <<pc, lastID, batchNum, results, lane>>
hist == <<prevID, encoded, fetched, written, prevWritten, saved, saveFailed,
          freshStart, crash, ckptHigh, wroteNames>>
vars == <<disk, coord, work, run, hist>>

NoSave == 0 - 1
NoCrash == [win |-> FALSE, cursorIn |-> NilObjectID, k |-> 0]

Missing == [state |-> "missing", data |-> <<>>]
Unreadable == [state |-> "unreadable", data |-> <<>>]
Text(d) == [state |-> "ok", data |-> d]

\* contents last_id.txt may have when the first invocation starts
InitData ==
    {<<>>, <<NonHexChar>> \o Tail(Hex(Min(Keys))), Tail(Hex(Min(Keys))),
     <<Space>> \o Hex(Min(Keys)) \o <<Space>>}
    \cup {Hex(k) : k \in Keys}
InitFiles == {Missing, Unreadable} \cup {Text(d) : d \in InitData}

FileName(n, w) == <<n, w>>

\* the state of a process that has just been started
Started ==
    /\ pcMain = "load"
    /\ mainLastID = NilObjectID
    /\ i = 0
    /\ wg = 0
    /\ workChan = <<>>
    /\ chanClosed = FALSE
    /\ pcCloser = "off"
    /\ outcome = "none"
    /\ pc = [w \in WorkerIDs |-> "off"]
    /\ lastID = [w \in WorkerIDs |-> NilObjectID]
    /\ batchNum = [w \in WorkerIDs |-> 0]
    /\ results = [w \in WorkerIDs |-> <<>>]
    /\ lane = [w \in WorkerIDs |-> "IDLE"]
    /\ prevID = [w \in WorkerIDs |-> NilObjectID]
    /\ encoded = [w \in WorkerIDs |-> FALSE]
    /\ fetched = {}
    /\ written = {}
    /\ saveFailed = FALSE
    /\ wroteNames = {}

Init ==
    /\ store \in SUBSET Keys
    /\ batchSize \in 1..MaxBatchSize
    /\ workers \in 1..MaxWorkers
    /\ lastIDFile \in InitFiles
    /\ exportDir = <<>>
    /\ run = 1
    /\ prevWritten = {}
    /\ saved = NoSave
    /\ freshStart = FALSE
    /\ crash = NoCrash
    /\ ckptHigh = loadLastID(lastIDFile)
    /\ Started

\* ---- main ----------------------------------------------------------------
\* lastID := loadLastID()
MainLoad ==
    /\ pcMain = "load"
    /\ mainLastID' = loadLastID(lastIDFile)
    /\ pcMain' = "spawn"
    /\ freshStart' = IF run = 1 THEN loadLastID(lastIDFile) = NilObjectID
                     ELSE freshStart
    /\ UNCHANGED <<disk, i, wg, workChan, chanClosed, pcCloser, outcome, work, run,
                   prevID, encoded, fetched, written, prevWritten, saved,
                   saveFailed, crash, ckptHigh, wroteNames>>

\* for i := 0; i < workers; i++ { wg.Add(1); go exportWorker(i, ...) }
MainStartWorkerNoAdd ==
    /\ pcMain = "spawn"
    /\ i < workers
    /\ pc' = [pc EXCEPT ![i] = "range"]
    /\ i' = i + 1
    /\ UNCHANGED <<disk, pcMain, mainLastID, wg, workChan, chanClosed, pcCloser,
                   outcome, lastID, batchNum, results, lane, run, hist>>
MainStartWorker ==
    /\ pcMain = "spawn"
    /\ i < workers
    /\ wg' = wg + 1
    /\ pc' = [pc EXCEPT ![i] = "range"]
    /\ i' = i + 1
    /\ UNCHANGED <<disk, pcMain, mainLastID, workChan, chanClosed, pcCloser,
                   outcome, lastID, batchNum, results, lane, run, hist>>

\* workChan <- lastID (the buffer holds `workers` elements)
MainFeedAll ==
    /\ pcMain = "spawn"
    /\ i = workers
    /\ workChan' = [p \in 1..workers |-> mainLastID]
    /\ pcMain' = "gocloser"
    /\ UNCHANGED <<disk, mainLastID, i, wg, chanClosed, pcCloser, outcome, work,
                   run, hist>>
MainFeedNil ==
    /\ pcMain = "spawn"
    /\ i = workers
    /\ Len(workChan) < workers
    /\ workChan' = Append(workChan, NilObjectID)
    /\ pcMain' = "gocloser"
    /\ UNCHANGED <<disk, mainLastID, i, wg, chanClosed, pcCloser, outcome, work,
                   run, hist>>
MainFeed ==
    /\ pcMain = "spawn"
    /\ i = workers
    /\ Len(workChan) < workers
    /\ workChan' = Append(workChan, mainLastID)
    /\ pcMain' = "gocloser"
    /\ UNCHANGED <<disk, mainLastID, i, wg, chanClosed, pcCloser, outcome, work,
                   run, hist>>

\* go func() { wg.Wait(); close(workChan) }()
MainGoCloser ==
    /\ pcMain = "gocloser"
    /\ pcCloser' = "wait"
    /\ pcMain' = "wait"
    /\ UNCHANGED <<disk, mainLastID, i, wg, workChan, chanClosed, outcome, work,
                   run, hist>>

\* wg.Wait(); log "Export completed successfully!" and the elapsed time
MainWait ==
    /\ pcMain = "wait"
    /\ wg = 0
    /\ outcome' = "success"
    /\ pcMain' = "done"
    /\ UNCHANGED <<disk, mainLastID, i, wg, workChan, chanClosed, pcCloser, work,
                   run, hist>>

CloserWait ==
    /\ pcCloser = "wait"
    /\ wg = 0
    /\ pcCloser' = "close"
    /\ UNCHANGED <<disk, pcMain, mainLastID, i, wg, workChan, chanClosed, outcome,
                   work, run, hist>>

CloserClose ==
    /\ pcCloser = "close"
    /\ chanClosed' = TRUE
    /\ pcCloser' = "done"
    /\ UNCHANGED <<disk, pcMain, mainLastID, i, wg, workChan, outcome, work, run,
                   hist>>

\* ---- exportWorker --------------------------------------------------------
\* log the error and return; the deferred wg.Done() runs
Fail(w) ==
    /\ pc' = [pc EXCEPT ![w] = "exited"]
    /\ lane' = [lane EXCEPT ![w] = "FAILED"]
    /\ wg' = wg - 1

\* for lastID := range workChan { batchNum := 1
WorkerRange(w) ==
    /\ pc[w] = "range"
    /\ workChan # <<>> \/ chanClosed
    /\ IF workChan # <<>>
       THEN /\ lastID' = [lastID EXCEPT ![w] = Head(workChan)]
            /\ workChan' = Tail(workChan)
            /\ batchNum' = [batchNum EXCEPT ![w] = 1]
            /\ pc' = [pc EXCEPT ![w] = "find"]
            /\ lane' = [lane EXCEPT ![w] = "ACTIVE"]
            /\ wg' = wg
       ELSE /\ pc' = [pc EXCEPT ![w] = "exited"]
            /\ wg' = wg - 1
            /\ UNCHANGED <<lastID, workChan, batchNum, lane>>
    /\ UNCHANGED <<disk, pcMain, mainLastID, i, chanClosed, pcCloser, outcome,
                   results, run, hist>>

\* build the filter; collection.Find(...)
WorkerFindRetry(w) ==
    /\ pc[w] = "find"
    /\ \E err \in BOOLEAN :
          IF err
          THEN /\ lane' = [lane EXCEPT ![w] = "FAILED"]
               /\ UNCHANGED <<pc, wg>>
          ELSE /\ pc' = [pc EXCEPT ![w] = "all"]
               /\ UNCHANGED <<lane, wg>>
    /\ encoded' = [encoded EXCEPT ![w] = FALSE]
    /\ UNCHANGED <<disk, pcMain, mainLastID, i, workChan, chanClosed, pcCloser,
                   outcome, lastID, batchNum, results, run, prevID, fetched,
                   written, prevWritten, saved, saveFailed, freshStart, crash,
                   ckptHigh, wroteNames>>
WorkerFind(w) ==
    /\ pc[w] = "find"
    /\ \E err \in BOOLEAN :
          IF err THEN Fail(w)
          ELSE /\ pc' = [pc EXCEPT ![w] = "all"]
               /\ UNCHANGED <<lane, wg>>
    /\ encoded' = [encoded EXCEPT ![w] = FALSE]
    /\ UNCHANGED <<disk, pcMain, mainLastID, i, workChan, chanClosed, pcCloser,
                   outcome, lastID, batchNum, results, run, prevID, fetched,
                   written, prevWritten, saved, saveFailed, freshStart, crash,
                   ckptHigh, wroteNames>>

\* cursor.All(&results); if len(results) == 0 { break }
WorkerAllNoBreak(w) ==
    /\ pc[w] = "all"
    /\ \E err \in BOOLEAN :
          IF err
          THEN /\ Fail(w)
               /\ UNCHANGED <<results, prevID, fetched>>
          ELSE /\ results' = [results EXCEPT
                                 ![w] = Find(store, Filter(lastID[w]), batchSize)]
               /\ prevID' = [prevID EXCEPT ![w] = lastID[w]]
               /\ fetched' = fetched \cup Range(results'[w])
               /\ pc' = [pc EXCEPT ![w] = "create"]
               /\ lane' = lane
               /\ wg' = wg
    /\ UNCHANGED <<disk, pcMain, mainLastID, i, workChan, chanClosed, pcCloser,
                   outcome, lastID, batchNum, run, encoded, written, prevWritten,
                   saved, saveFailed, freshStart, crash, ckptHigh, wroteNames>>
WorkerAll(w) ==
    /\ pc[w] = "all"
    /\ \E err \in BOOLEAN :
          IF err
          THEN /\ Fail(w)
               /\ UNCHANGED <<results, prevID, fetched>>
          ELSE /\ results' = [results EXCEPT
                                 ![w] = Find(store, Filter(lastID[w]), batchSize)]
               /\ prevID' = [prevID EXCEPT ![w] = lastID[w]]
               /\ fetched' = fetched \cup Range(results'[w])
               /\ IF results'[w] = <<>>
                  THEN /\ pc' = [pc EXCEPT ![w] = "range"]
                       /\ lane' = [lane EXCEPT ![w] = "DONE"]
                  ELSE /\ pc' = [pc EXCEPT ![w] = "create"]
                       /\ lane' = lane
               /\ wg' = wg
    /\ UNCHANGED <<disk, pcMain, mainLastID, i, workChan, chanClosed, pcCloser,
                   outcome, lastID, batchNum, run, encoded, written, prevWritten,
                   saved, saveFailed, freshStart, crash, ckptHigh, wroteNames>>

\* the directory with file `name` holding `content`
WithFile(dir, name, content) ==
    [n \in DOMAIN dir \cup {name} |-> IF n = name THEN content ELSE dir[n]]

\* os.Create(filePath): the file exists and is empty afterwards
WorkerCreate(w) ==
    /\ pc[w] = "create"
    /\ \E err \in BOOLEAN :
          IF err
          THEN /\ Fail(w)
               /\ UNCHANGED exportDir
          ELSE /\ exportDir' = WithFile(exportDir, FileName(batchNum[w], w),
                                        [data |-> <<>>, complete |-> FALSE])
               /\ pc' = [pc EXCEPT ![w] = "encode"]
               /\ UNCHANGED <<lane, wg>>
    /\ UNCHANGED <<store, batchSize, workers, lastIDFile, pcMain, mainLastID, i,
                   workChan, chanClosed, pcCloser, outcome, lastID, batchNum,
                   results, run, hist>>

\* encoder.Encode(results); file.Close()
WorkerEncodeNoReturn(w) ==
    /\ pc[w] = "encode"
    /\ \E err \in BOOLEAN :
          IF err
          THEN /\ pc' = [pc EXCEPT ![w] = "save"]
               /\ UNCHANGED <<exportDir, encoded, written, wroteNames, lane, wg>>
          ELSE /\ exportDir' = WithFile(exportDir, FileName(batchNum[w], w),
                                        [data |-> results[w], complete |-> TRUE])
               /\ encoded' = [encoded EXCEPT ![w] = TRUE]
               /\ written' = written \cup Range(results[w])
               /\ wroteNames' = wroteNames \cup {FileName(batchNum[w], w)}
               /\ pc' = [pc EXCEPT ![w] = "save"]
               /\ UNCHANGED <<lane, wg>>
    /\ UNCHANGED <<store, batchSize, workers, lastIDFile, pcMain, mainLastID, i,
                   workChan, chanClosed, pcCloser, outcome, lastID, batchNum,
                   results, run, prevID, fetched, prevWritten, saved, saveFailed,
                   freshStart, crash, ckptHigh>>
WorkerEncode(w) ==
    /\ pc[w] = "encode"
    /\ \E err \in BOOLEAN :
          IF err
          THEN /\ Fail(w)
               /\ UNCHANGED <<exportDir, encoded, written, wroteNames>>
          ELSE /\ exportDir' = WithFile(exportDir, FileName(batchNum[w], w),
                                        [data |-> results[w], complete |-> TRUE])
               /\ encoded' = [encoded EXCEPT ![w] = TRUE]
               /\ written' = written \cup Range(results[w])
               /\ wroteNames' = wroteNames \cup {FileName(batchNum[w], w)}
               /\ pc' = [pc EXCEPT ![w] = "save"]
               /\ UNCHANGED <<lane, wg>>
    /\ UNCHANGED <<store, batchSize, workers, lastIDFile, pcMain, mainLastID, i,
                   workChan, chanClosed, pcCloser, outcome, lastID, batchNum,
                   results, run, prevID, fetched, prevWritten, saved, saveFailed,
                   freshStart, crash, ckptHigh>>

\* lastID = results[len(results)-1]["_id"]; saveLastID: os.Create(lastIDFile)
\* (a file the process may not read cannot be created over either)
WorkerSaveCreateFatal(w) ==
    /\ pc[w] = "save"
    /\ lastID' = [lastID EXCEPT ![w] = results[w][Len(results[w])]]
    /\ \E err \in BOOLEAN :
          /\ lastIDFile.state = "unreadable" => err
          /\ IF err
             THEN /\ Fail(w)
                  /\ saveFailed' = TRUE
                  /\ UNCHANGED <<lastIDFile, saved>>
             ELSE /\ lastIDFile' = Text(<<>>)
                  /\ saved' = NoSave
                  /\ pc' = [pc EXCEPT ![w] = "write"]
                  /\ UNCHANGED <<saveFailed, lane, wg>>
    /\ UNCHANGED <<store, batchSize, workers, exportDir, pcMain, mainLastID, i,
                   workChan, chanClosed, pcCloser, outcome, batchNum, results,
                   run, prevID, encoded, fetched, written, prevWritten,
                   freshStart, crash, ckptHigh, wroteNames>>
WorkerSaveCreateFirst(w) ==
    /\ pc[w] = "save"
    /\ lastID' = [lastID EXCEPT ![w] = results[w][1]]
    /\ \E err \in BOOLEAN :
          /\ lastIDFile.state = "unreadable" => err
          /\ IF err
             THEN /\ pc' = [pc EXCEPT ![w] = "incr"]
                  /\ saveFailed' = TRUE
                  /\ UNCHANGED <<lastIDFile, saved>>
             ELSE /\ lastIDFile' = Text(<<>>)
                  /\ saved' = NoSave
                  /\ pc' = [pc EXCEPT ![w] = "write"]
                  /\ UNCHANGED saveFailed
    /\ UNCHANGED <<store, batchSize, workers, exportDir, coord, batchNum, results,
                   lane, run, prevID, encoded, fetched, written, prevWritten,
                   freshStart, crash, ckptHigh, wroteNames>>
WorkerSaveCreate(w) ==
    /\ pc[w] = "save"
    /\ lastID' = [lastID EXCEPT ![w] = results[w][Len(results[w])]]
    /\ \E err \in BOOLEAN :
          /\ lastIDFile.state = "unreadable" => err
          /\ IF err
             THEN /\ pc' = [pc EXCEPT ![w] = "incr"]
                  /\ saveFailed' = TRUE
                  /\ UNCHANGED <<lastIDFile, saved>>
             ELSE /\ lastIDFile' = Text(<<>>)
                  /\ saved' = NoSave
                  /\ pc' = [pc EXCEPT ![w] = "write"]
                  /\ UNCHANGED saveFailed
    /\ UNCHANGED <<store, batchSize, workers, exportDir, coord, batchNum, results,
                   lane, run, prevID, encoded, fetched, written, prevWritten,
                   freshStart, crash, ckptHigh, wroteNames>>

\* saveLastID: file.WriteString(lastID.Hex()); deferred file.Close()
\* (a failed write leaves a proper prefix of the text in the file)
WorkerSaveWriteSkip(w) ==
    /\ pc[w] = "write"
    /\ \E err \in BOOLEAN :
          IF err
          THEN /\ \E n \in 0..(HexLen - 1) :
                     lastIDFile' = Text(SubSeq(Hex(lastID[w]), 1, n))
               /\ saveFailed' = TRUE
               /\ pc' = [pc EXCEPT ![w] = "find"]
               /\ UNCHANGED saved
          ELSE /\ lastIDFile' = Text(Hex(lastID[w]))
               /\ saved' = lastID[w]
               /\ pc' = [pc EXCEPT ![w] = "incr"]
               /\ UNCHANGED saveFailed
    /\ ckptHigh' = IF loadLastID(lastIDFile') > ckptHigh
                   THEN loadLastID(lastIDFile') ELSE ckptHigh
    /\ UNCHANGED <<store, batchSize, workers, exportDir, coord, lastID, batchNum,
                   results, lane, run, prevID, encoded, fetched, written,
                   prevWritten, freshStart, crash, wroteNames>>
WorkerSaveWrite(w) ==
    /\ pc[w] = "write"
    /\ \E err \in BOOLEAN :
          IF err
          THEN /\ \E n \in 0..(HexLen - 1) :
                     lastIDFile' = Text(SubSeq(Hex(lastID[w]), 1, n))
               /\ saveFailed' = TRUE
               /\ UNCHANGED saved
          ELSE /\ lastIDFile' = Text(Hex(lastID[w]))
               /\ saved' = lastID[w]
               /\ UNCHANGED saveFailed
    /\ ckptHigh' = IF loadLastID(lastIDFile') > ckptHigh
                   THEN loadLastID(lastIDFile') ELSE ckptHigh
    /\ pc' = [pc EXCEPT ![w] = "incr"]
    /\ UNCHANGED <<store, batchSize, workers, exportDir, coord, lastID, batchNum,
                   results, lane, run, prevID, encoded, fetched, written,
                   prevWritten, freshStart, crash, wroteNames>>

\* log the progress line; batchNum++
WorkerIncrNone(w) ==
    /\ pc[w] = "incr"
    /\ batchNum' = batchNum
    /\ pc' = [pc EXCEPT ![w] = "find"]
    /\ UNCHANGED <<disk, coord, lastID, results, lane, run, hist>>
WorkerIncr(w) ==
    /\ pc[w] = "incr"
    /\ batchNum' = [batchNum EXCEPT ![w] = batchNum[w] + 1]
    /\ pc' = [pc EXCEPT ![w] = "find"]
    /\ UNCHANGED <<disk, coord, lastID, results, lane, run, hist>>

\* ---- interruption --------------------------------------------------------
\* The process is killed at any point and the program is started again: the
\* files stay as they are, everything in memory is lost.
CrashRestart ==
    /\ run < MaxRuns
    /\ run' = run + 1
    /\ prevWritten' = prevWritten \cup written
    /\ crash' = IF /\ run = 1 /\ freshStart /\ ~saveFailed
                   /\ \E w \in WorkerIDs : pc[w] \in {"save", "write"}
                THEN LET w == CHOOSE v \in WorkerIDs : pc[v] \in {"save", "write"}
                     IN  [win |-> TRUE, cursorIn |-> prevID[w], k |-> batchNum[w]]
                ELSE NoCrash
    /\ pcMain' = "load"
    /\ mainLastID' = NilObjectID
    /\ i' = 0
    /\ wg' = 0
    /\ workChan' = <<>>
    /\ chanClosed' = FALSE
    /\ pcCloser' = "off"
    /\ outcome' = "none"
    /\ pc' = [w \in WorkerIDs |-> "off"]
    /\ lastID' = [w \in WorkerIDs |-> NilObjectID]
    /\ batchNum' = [w \in WorkerIDs |-> 0]
    /\ results' = [w \in WorkerIDs |-> <<>>]
    /\ lane' = [w \in WorkerIDs |-> "IDLE"]
    /\ prevID' = [w \in WorkerIDs |-> NilObjectID]
    /\ encoded' = [w \in WorkerIDs |-> FALSE]
    /\ fetched' = {}
    /\ written' = {}
    /\ saveFailed' = FALSE
    /\ wroteNames' = {}
    /\ UNCHANGED <<disk, saved, freshStart, ckptHigh>>

Next ==
    \/ MainLoad
    \/ MainStartWorker
    \/ MainFeed
    \/ MainGoCloser
    \/ MainWait
    \/ CloserWait
    \/ CloserClose
    \/ \E w \in WorkerIDs : WorkerRange(w)
    \/ \E w \in WorkerIDs : WorkerFind(w)
    \/ \E w \in WorkerIDs : WorkerAll(w)
    \/ \E w \in WorkerIDs : WorkerCreate(w)
    \/ \E w \in WorkerIDs : WorkerEncode(w)
    \/ \E w \in WorkerIDs : WorkerSaveCreate(w)
    \/ \E w \in WorkerIDs : WorkerSaveWrite(w)
    \/ \E w \in WorkerIDs : WorkerIncr(w)
    \/ CrashRestart

Spec == Init /\ [][Next]_vars

\* ---- properties ----------------------------------------------------------
LoopPcs == {"find", "all", "create", "encode", "save", "write", "incr"}
IsStarted(w) == w < workers

\* keys held by the complete batch files of the export directory
Exported ==
    UNION {Range(exportDir[n].data) :
             n \in {m \in DOMAIN exportDir : exportDir[m].complete}}

IsPrefix(a, b) == Len(a) <= Len(b) /\ a = SubSeq(b, 1, Len(a))

\* C1: last_id.txt is only ever overwritten during an iteration whose page was
\* non-empty and whose batch file was created and encoded without error, and
\* only with (a prefix of) the text of that page's last key.
C1_CheckpointAfterWrite ==
    [][lastIDFile' # lastIDFile =>
         \E w \in WorkerIDs :
            /\ pc[w] \in {"save", "write"}
            /\ encoded[w]
            /\ results[w] # <<>>
            /\ FileName(batchNum[w], w) \in DOMAIN exportDir
            /\ exportDir[FileName(batchNum[w], w)]
                  = [data |-> results[w], complete |-> TRUE]
            /\ lastIDFile'.state = "ok"
            /\ IsPrefix(lastIDFile'.data, Hex(results[w][Len(results[w])]))]_vars

C1_Witness ==
    \E w \in WorkerIDs :
       /\ pc[w] = "incr"
       /\ encoded[w]
       /\ saved = lastID[w]
       /\ lastIDFile = Text(Hex(results[w][Len(results[w])]))

\* C2: after a fresh first run was interrupted and a restarted run received
\* its empty page, every record of the store is in some complete batch file.
C2_NoRecordLost ==
    (run >= 2 /\ freshStart /\ \E w \in WorkerIDs : lane[w] = "DONE")
       => store \subseteq Exported

\* C3: a run that loaded a non-nil checkpoint C fetches and writes only
\* records with key > C, and every cursor it fetches with is >= C.
C3_ForwardOnly ==
    (pcMain # "load" /\ mainLastID # NilObjectID) =>
       /\ \A k \in fetched \cup written : k > mainLastID
       /\ \A w \in WorkerIDs : pc[w] \in LoopPcs => lastID[w] >= mainLastID

C3_Witness ==
    /\ run >= 2
    /\ mainLastID # NilObjectID
    /\ written # {}
    /\ \E k \in store : k <= mainLastID

\* C4: if a fresh first run with no failed save is killed after batch k's
\* file is written and before its saveLastID has completed, the restarted
\* run loads the cursor batch k was fetched with (nil for k = 1), fetches
\* exactly the records beyond it, and fetches again at most batchSize
\* records that were already in a file.
C4_OnePageRefetched ==
    (run = 2 /\ crash.win /\ pcMain # "load") =>
       /\ mainLastID = crash.cursorIn
       /\ \A w \in WorkerIDs : lane[w] = "DONE" =>
             /\ fetched = {k \in store : k > crash.cursorIn}
             /\ Cardinality(fetched \cap prevWritten) <= batchSize

\* C5: a lane leaves its fetch loop without failing exactly when a fetch
\* returned an empty page; a non-empty page moves the cursor strictly
\* forward; so a lane fetches at most one non-empty page per record.
C5_CursorAdvances ==
    \A w \in WorkerIDs :
       /\ pc[w] \in {"write", "incr"} => lastID[w] > prevID[w]
       /\ (pc[w] = "find" /\ batchNum[w] > 1) => lastID[w] > prevID[w]
       /\ pc[w] \in {"create", "encode", "save"} =>
             results[w] # <<>> /\ lastID[w] = prevID[w]
       /\ pc[w] \in LoopPcs => batchNum[w] <= Cardinality(store) + 1

C5_LeavesOnEmptyPage ==
    \A w \in WorkerIDs :
       (pc[w] \in LoopPcs /\ pc'[w] = "range")
          <=> (/\ pc[w] = "all"
               /\ pc'[w] \notin {"all", "off"}
               /\ lane'[w] # "FAILED"
               /\ results'[w] = <<>>)

AllBlocked ==
    /\ pcMain = "wait" /\ wg # 0
    /\ pcCloser = "wait"
    /\ \A w \in WorkerIDs :
          IsStarted(w) => pc[w] = "range" /\ workChan = <<>> /\ ~chanClosed

C6_NoDeadlock ==
    ((\A w \in WorkerIDs : lane[w] # "FAILED") /\ ~saveFailed) => ~AllBlocked

\* C7: main logs completion only after every started exportWorker has
\* returned (and so called wg.Done).
C7_CompletionAfterAllDone ==
    outcome # "none" => \A w \in WorkerIDs : IsStarted(w) => pc[w] = "exited"

C7_Witness == outcome = "success" /\ pcMain = "done" /\ pc[0] = "exited"

\* C8: a run in which a lane failed is never reported as successful.
C8_FailureReported ==
    (\E w \in WorkerIDs : lane[w] = "FAILED") => outcome # "success"

\* C9: loadLastID returns the cursor of the latest complete saveLastID when
\* no later save touched the file, in this or a later process.
C9_RoundTrip ==
    [][(pcMain = "load" /\ pcMain' = "spawn" /\ saved # NoSave)
          => mainLastID' = saved]_vars

C9_Witness ==
    /\ run >= 2
    /\ pcMain = "spawn"
    /\ saved # NoSave
    /\ mainLastID = saved

\* the cursor a checkpoint text stands for: optional white space around
\* exactly HexLen hex digits, read as a big-endian number
Spaces(n) == [p \in 1..n |-> Space]
RECURSIVE PlaceValue(_, _)
PlaceValue(d, p) ==
    IF p > Len(d) THEN 0
    ELSE d[p] * Pow16(Len(d) - p) + PlaceValue(d, p + 1)
IsKeyText(d) ==
    \E a \in 0..Len(d), b \in 0..Len(d) :
       /\ a + b + HexLen = Len(d)
       /\ SubSeq(d, 1, a) = Spaces(a)
       /\ SubSeq(d, Len(d) - b + 1, Len(d)) = Spaces(b)
       /\ \A p \in (a + 1)..(a + HexLen) : d[p] \in HexDigits
KeyOfText(d) == PlaceValue(SelectSeq(d, LAMBDA c : c # Space), 1)
StoredCursor(f) ==
    IF f.state = "ok" /\ IsKeyText(f.data) THEN KeyOfText(f.data)
    ELSE NilObjectID

\* C10: loadLastID yields the nil cursor for a missing, unreadable, empty or
\* malformed file and the stored cursor otherwise; main goes on, and the
\* file is left as it was.
C10_LoadNeverFails ==
    [][(pcMain = "load" /\ pcMain' # "load") =>
          /\ pcMain' = "spawn"
          /\ lastIDFile' = lastIDFile
          /\ mainLastID' = StoredCursor(lastIDFile)]_vars

C10_Witness ==
    /\ pcMain = "spawn"
    /\ mainLastID = NilObjectID
    /\ lastIDFile.state = "ok"
    /\ lastIDFile.data # <<>>

\* C11: whenever no saveLastID is under way, the cursor loadLastID would
\* return is not below any cursor it would have returned earlier.
C11_CheckpointMonotone ==
    (\A w \in WorkerIDs : pc[w] # "write")
       => loadLastID(lastIDFile) >= ckptHigh

\* C12: when the store holds no record beyond the cursor loaded at startup,
\* the lane's first fetch is empty, it finishes without writing a batch file
\* or saving, and neither last_id.txt nor the export directory changes.
NoneBeyond == pcMain # "load" /\ {k \in store : k > mainLastID} = {}

C12_NothingDone ==
    \A w \in WorkerIDs :
       (NoneBeyond /\ lane[w] # "IDLE") =>
          /\ pc[w] \in {"find", "all", "range", "exited"}
          /\ pc[w] = "range" => lane[w] = "DONE"
          /\ batchNum[w] = 1
          /\ wroteNames = {} /\ written = {} /\ fetched = {}
          /\ ~saveFailed
          /\ loadLastID(lastIDFile) = mainLastID

C12_FilesUntouched ==
    (NoneBeyond /\ run' = run) =>
       lastIDFile' = lastIDFile /\ exportDir' = exportDir

C12_EmptyCollection == []C12_NothingDone /\ [][C12_FilesUntouched]_vars

C12_Witness ==
    \E w \in WorkerIDs :
       /\ lane[w] = "DONE"
       /\ NoneBeyond
       /\ store # {}
       /\ mainLastID # NilObjectID

IsAscending(q) == \A p \in 1..(Len(q) - 1) : q[p] < q[p + 1]
MaxOf(S) == CHOOSE x \in S : \A y \in S : y <= x

\* C13: a page being processed is non-empty, strictly ascending by key and
\* at most batchSize long; from line 139 on the in-memory cursor is the
\* page's maximum key, its last record's; after a successful save the
\* persisted checkpoint is that key too.
C13_PageOrdering ==
    \A w \in WorkerIDs :
       pc[w] \in {"create", "encode", "save", "write", "incr"} =>
          /\ results[w] # <<>>
          /\ IsAscending(results[w])
          /\ Len(results[w]) <= batchSize
          /\ Range(results[w]) \subseteq store
          /\ pc[w] \in {"write", "incr"} =>
                /\ lastID[w] = MaxOf(Range(results[w]))
                /\ lastID[w] = results[w][Len(results[w])]
          /\ (pc[w] = "incr" /\ saved = lastID[w]) =>
                loadLastID(lastIDFile) = MaxOf(Range(results[w]))

C13_Witness ==
    \E w \in WorkerIDs :
       /\ pc[w] = "incr"
       /\ Len(results[w]) = 2
       /\ saved = lastID[w]
       /\ lastID[w] = results[w][2]

\* C14: within one invocation a batch file is never created under a name
\* this invocation has already written a page to, and the pages it wrote
\* stay complete.
C14_NamesCollisionFree ==
    /\ \A w \in WorkerIDs :
          pc[w] \in {"create", "encode"} =>
             FileName(batchNum[w], w) \notin wroteNames
    /\ \A n \in wroteNames : n \in DOMAIN exportDir /\ exportDir[n].complete
    /\ written \subseteq Exported

C14_Witness ==
    /\ Cardinality(wroteNames) = 2
    /\ \E w \in WorkerIDs : pc[w] = "find" /\ batchNum[w] = 3

\* batch files the lane has written completely in this invocation
WrittenBy(w) == Cardinality({n \in wroteNames : n[2] = w})

\* C15 as stated: in every state of a lane batchNum is 1 plus the number
\* of batch files the lane has written.
C15_CounterInEveryState ==
    \A w \in WorkerIDs : lane[w] # "IDLE" => batchNum[w] = 1 + WrittenBy(w)

\* C15 amended: batchNum is 1 plus the number of files written except from
\* the write of the file until batchNum++ at the end of the iteration, where
\* it is that number; a failed save changes nothing about it.
C15_CounterAtLoopHead ==
    \A w \in WorkerIDs :
       lane[w] # "IDLE" =>
          batchNum[w] = WrittenBy(w)
                          + (IF pc[w] \in {"save", "write", "incr"} THEN 0 ELSE 1)

C15_Witness ==
    \E w \in WorkerIDs :
       /\ pc[w] = "find"
       /\ batchNum[w] = 2
       /\ WrittenBy(w) = 1
       /\ saveFailed

\* C16: a failed saveLastID does not stop the lane: it goes on to batchNum++
\* and the next fetch with lastID at the page's last key; and no record at
\* or below the persisted checkpoint or an in-memory cursor was left
\* unwritten, so a restart can only export again, never skip.
C16_NothingSkipped ==
    freshStart =>
       /\ \A k \in store :
             k <= loadLastID(lastIDFile) => k \in prevWritten \cup written
       /\ \A w \in WorkerIDs : \A k \in store :
             (lane[w] # "IDLE" /\ k <= lastID[w]) => k \in prevWritten \cup written

C16_SaveStep ==
    \A w \in WorkerIDs :
       /\ (pc[w] \in {"save", "write"} /\ pc'[w] # pc[w] /\ run' = run) =>
             /\ pc'[w] \in {"write", "incr"}
             /\ lane'[w] = "ACTIVE"
             /\ lastID'[w] = results[w][Len(results[w])]
       /\ (pc[w] = "incr" /\ pc'[w] # pc[w] /\ run' = run) =>
             pc'[w] = "find" /\ lastID'[w] = lastID[w] /\ lane'[w] = "ACTIVE"

C16_SaveFailureNonFatal == []C16_NothingSkipped /\ [][C16_SaveStep]_vars

C16_Witness ==
    \E w \in WorkerIDs :
       /\ saveFailed
       /\ freshStart
       /\ pc[w] = "all"
       /\ batchNum[w] = 2
       /\ lastID[w] = MaxOf(written)
       /\ loadLastID(lastIDFile) < lastID[w]

\* C17: the step on which a lane fails leaves last_id.txt, the batch counter
\* and the cursor as they were and ends the lane; afterwards the lane issues
\* no fetch and creates no file, and checkpoint and counter stay unchanged.
C17_FailStep ==
    \A w \in WorkerIDs :
       /\ (lane'[w] = "FAILED" /\ lane[w] # "FAILED") =>
             /\ pc[w] \in {"find", "all", "create", "encode"}
             /\ pc'[w] = "exited"
             /\ lastIDFile' = lastIDFile
             /\ batchNum'[w] = batchNum[w]
             /\ lastID'[w] = lastID[w]
             /\ fetched' = fetched
             /\ DOMAIN exportDir' = DOMAIN exportDir
       /\ (lane[w] = "FAILED" /\ run' = run) =>
             /\ pc'[w] = "exited"
             /\ lane'[w] = "FAILED"
             /\ lastIDFile' = lastIDFile
             /\ exportDir' = exportDir
             /\ batchNum' = batchNum
             /\ fetched' = fetched

C17_ErrorIsFatal ==
    [](\A w \in WorkerIDs : lane[w] = "FAILED" => pc[w] = "exited")
       /\ [][C17_FailStep]_vars

C17_Witness ==
    \E w \in WorkerIDs :
       /\ lane[w] = "FAILED"
       /\ batchNum[w] = 2
       /\ pcMain = "done"
       /\ FileName(2, w) \in DOMAIN exportDir
       /\ ~exportDir[FileName(2, w)].complete

\* C18: one cursor is put on workChan, so at most one worker ever becomes
\* active; the others stay in `range workChan`, and only the active lane
\* fetches, writes files and saves.
NonIdle == {w \in WorkerIDs : lane[w] # "IDLE"}

C19_CursorAheadOfCheckpoint ==
    /\ pcMain = "load" => \A w \in WorkerIDs : pc[w] = "off"
    /\ \A p \in 1..Len(workChan) : workChan[p] = mainLastID
    /\ \A w \in WorkerIDs :
          lane[w] # "IDLE" =>
             /\ lastID[w] >= loadLastID(lastIDFile)
             /\ lastID[w] >= mainLastID
             /\ (pc[w] \in {"find", "all"} /\ ~saveFailed) =>
                   lastID[w] = loadLastID(lastIDFile)

C19_Witness ==
    \E w \in WorkerIDs :
       /\ pc[w] = "find"
       /\ batchNum[w] = 2
       /\ ~saveFailed
       /\ mainLastID # NilObjectID
       /\ lastID[w] = loadLastID(lastIDFile)
       /\ lastID[w] > mainLastID
====
